---- MODULE Spec2Model ----
(***************************************************************************)
(* Model of the compilation core of k-okamo/hal: the AST -> IR lowering    *)
(* (gen_ir, gen_stmt, gen_expr, gen_lval, gen_binop in src/parse.go) and   *)
(* the register allocator (alloc, kill, alloc_regs in src/regalloc.go).    *)
(*                                                                         *)
(* A program is a sequence of ND_FUNC nodes.  Spec is main: gen_ir lowers   *)
(* one function per step and main hands the vector of Function records to  *)
(* alloc_regs.  SpecAlloc is alloc_regs called on the IR of one function,  *)
(* one instruction per step.  The globals nlabel (lowering) and used       *)
(* (allocator) are process-wide and are never reset by the code.           *)
(***************************************************************************)
EXTENDS Integers, Sequences, FiniteSets, TLC

(***************************************************************************)
(* Bounds of the model                                                     *)
(***************************************************************************)
\* longest right-nested chain  a1 + (a2 + (... + an))  among the inputs
MaxNest == 9
\* number of functions of a program
MaxFuncs == 2

(***************************************************************************)
(* Program constants                                                       *)
(***************************************************************************)
\* len(regs): the physical register pool rdi, rsi, r10 .. r15
NumRegs == 8
\* capacity of IR.args and of gen_expr's local args array
MaxArgs == 6

\* AST node opcodes (iota + 256) and the character opcodes
ND_NUM == 256
ND_STR == 257
ND_IDENT == 258
ND_STRUCT == 259
ND_VARDEF == 260
ND_LVAR == 261
ND_GVAR == 262
ND_IF == 263
ND_FOR == 264
ND_DO_WHILE == 265
ND_ADDR == 266
ND_DEREF == 267
ND_DOT == 268
ND_EQ == 269
ND_NE == 270
ND_LOGOR == 271
ND_LOGAND == 272
ND_RETURN == 273
ND_SIZEOF == 274
ND_ALIGNOF == 275
ND_CALL == 276
ND_FUNC == 277
ND_COMP_STMT == 278
ND_EXPR_STMT == 279
ND_STMT_EXPR == 280
ND_NULL == 281
CH_PLUS == 43
CH_MINUS == 45
CH_STAR == 42
CH_SLASH == 47
CH_LT == 60
CH_ASSIGN == 61

\* C type kinds
INT == 0
CHAR == 1
PTR == 2
ARY == 3
STRUCT == 4

\* IR opcodes (iota + 256)
IR_ADD == 256
IR_SUB == 257
IR_MUL == 258
IR_DIV == 259
IR_IMM == 260
IR_SUB_IMM == 261
IR_MOV == 262
IR_RETURN == 263
IR_CALL == 264
IR_LABEL == 265
IR_LT == 266
IR_JMP == 267
IR_UNLESS == 268
IR_LOAD32 == 269
IR_LOAD64 == 270
IR_STORE32 == 271
IR_STORE64 == 272
IR_STORE32_ARG == 273
IR_STORE64_ARG == 274
IR_KILL == 275
IR_NOP == 276

\* IR operand shapes (iota + 256)
IR_TY_NOARG == 256
IR_TY_REG == 257
IR_TY_IMM == 258
IR_TY_JMP == 259
IR_TY_LABEL == 260
IR_TY_REG_REG == 261
IR_TY_REG_IMM == 262
IR_TY_IMM_IMM == 263
IR_TY_REG_LABEL == 264
IR_TY_CALL == 265

\* the opcode catalog: the shape of each opcode (IRInfo.ty)
irinfo ==
  [op \in IR_ADD..IR_NOP |->
     CASE op \in {IR_ADD, IR_SUB, IR_MUL, IR_DIV, IR_MOV, IR_LT,
                  IR_LOAD32, IR_LOAD64, IR_STORE32, IR_STORE64} -> IR_TY_REG_REG
       [] op \in {IR_IMM, IR_SUB_IMM} -> IR_TY_REG_IMM
       [] op = IR_LABEL -> IR_TY_LABEL
       [] op = IR_JMP -> IR_TY_JMP
       [] op = IR_UNLESS -> IR_TY_REG_LABEL
       [] op = IR_CALL -> IR_TY_CALL
       [] op \in {IR_RETURN, IR_KILL} -> IR_TY_REG
       [] op \in {IR_STORE32_ARG, IR_STORE64_ARG} -> IR_TY_IMM_IMM
       [] op = IR_NOP -> IR_TY_NOARG]

get_irinfo(ir) == irinfo[ir.op]

(***************************************************************************)
(* Lowering: src/parse.go.  The globals code, nreg, nlabel are threaded    *)
(* through the operators as the record s; s.r is the value a gen_*         *)
(* function returns and s.err records a fatal error() ("error") or a Go    *)
(* run-time panic ("panic"), after which the process is gone.              *)
(***************************************************************************)
\* IR.args of a freshly allocated IR: a zeroed [6]int
NoArgs == [i \in 0..(MaxArgs - 1) |-> 0]

\* new(IR) with op, lhs, rhs set
new_ir(op, lhs, rhs) ==
  [op |-> op, lhs |-> lhs, rhs |-> rhs, nargs |-> 0, args |-> NoArgs]

add(s, op, lhs, rhs) == [s EXCEPT !.code = Append(@, new_ir(op, lhs, rhs))]

\* kill of the lowering pass (parse.go): emits KILL r
gen_kill(s, r) == add(s, IR_KILL, r, -1)

\* label as it would be if it emitted the label number off by one
label_off_by_one(s, x) == add(s, IR_LABEL, x + 1, -1)

label(s, x) == add(s, IR_LABEL, x, -1)

\* error(...): fatal, the process exits
error(s) == [s EXCEPT !.err = "error"]

\* a Go run-time panic (index out of range, nil pointer dereference)
panic(s) == [s EXCEPT !.err = "panic"]

\* size_of(ty): the size of a type, as the layout pass recorded it
size_of(ty) == ty.size

\* a nil *Node
nil == [op |-> 0]

\* a nil *Type: the ty of a node nothing has typed
nil_type == [ty |-> -1]

RECURSIVE gen_expr(_, _)
RECURSIVE gen_stmt(_, _)
RECURSIVE gen_args(_, _, _, _)
RECURSIVE gen_stmts(_, _, _)

\* The lowering functions below are written step by step: after_X(s1) is
\* the rest of the function once the call X has returned with the state
\* s1.  Every call that can die (error() or a panic) is followed by
\* IF s1.err # "" THEN s1: the process is gone and nothing more is emitted.
gen_lval(node, s) ==
  IF node.op = ND_DEREF THEN gen_expr(node.expr, s)
  ELSE IF node.op = ND_LVAR THEN
    LET r == s.nreg
        s1 == [s EXCEPT !.nreg = @ + 1]
        s2 == add(s1, IR_MOV, r, 0)
        s3 == add(s2, IR_SUB_IMM, r, node.offset)
    IN [s3 EXCEPT !.r = r]
  ELSE error(s)

gen_binop(ty, lhs, rhs, s) ==
  LET after_rhs(r1, s2) ==
        IF s2.err # "" THEN s2 ELSE
        LET r2 == s2.r
            s3 == add(s2, ty, r1, r2)
            s4 == gen_kill(s3, r2)
        IN [s4 EXCEPT !.r = r1]
      after_lhs(s1) ==
        IF s1.err # "" THEN s1 ELSE after_rhs(s1.r, gen_expr(rhs, s1))
  IN after_lhs(gen_expr(lhs, s))

\* the argument loop of ND_CALL: args[i] = gen_expr(node.args.data[i]);
\* acc is the local array args, a seventh argument indexes past its end.
\* The array comes back in s.args.
gen_args(args, i, s, acc) ==
  LET after_arg(s1) ==
        IF s1.err # "" THEN s1
        ELSE IF i >= MaxArgs THEN panic(s1)
        ELSE gen_args(args, i + 1, s1, [acc EXCEPT ![i] = s1.r])
  IN IF i >= Len(args) THEN [s EXCEPT !.args = acc]
     ELSE after_arg(gen_expr(args[i + 1], s))

\* kill(ir.args[i]) for i < nargs
RECURSIVE kill_args(_, _, _, _)
kill_args(s, args, i, nargs) ==
  IF i >= nargs THEN s
  ELSE kill_args(gen_kill(s, args[i]), args, i + 1, nargs)

gen_expr(node, s) ==
  CASE node.op = ND_NUM ->
         LET r == s.nreg
             s1 == [s EXCEPT !.nreg = @ + 1]
         IN [add(s1, IR_IMM, r, node.val) EXCEPT !.r = r]
    [] node.op = ND_LOGAND ->
         LET x == s.nlabel
             after_rhs(r1, s3) ==
               IF s3.err # "" THEN s3 ELSE
               LET r2 == s3.r
                   s4 == add(s3, IR_MOV, r1, r2)
                   s5 == gen_kill(s4, r2)
                   s6 == add(s5, IR_UNLESS, r1, x)
                   s7 == add(s6, IR_IMM, r1, 1)
                   s8 == label(s7, x)
               IN [s8 EXCEPT !.r = r1]
             after_lhs(s1) ==
               IF s1.err # "" THEN s1 ELSE
               after_rhs(s1.r, gen_expr(node.rhs, add(s1, IR_UNLESS, s1.r, x)))
         IN after_lhs(gen_expr(node.lhs, [s EXCEPT !.nlabel = @ + 1]))
    [] node.op = ND_LOGOR ->
         LET x == s.nlabel
             y == s.nlabel + 1
             after_rhs(r1, s6) ==
               IF s6.err # "" THEN s6 ELSE
               LET r2 == s6.r
                   s7 == add(s6, IR_MOV, r1, r2)
                   s8 == gen_kill(s7, r2)
                   s9 == add(s8, IR_UNLESS, r1, y)
                   s10 == add(s9, IR_IMM, r1, 1)
                   s11 == label(s10, y)
               IN [s11 EXCEPT !.r = r1]
             after_lhs(s1) ==
               IF s1.err # "" THEN s1 ELSE
               LET r1 == s1.r
                   s2 == add(s1, IR_UNLESS, r1, x)
                   s3 == add(s2, IR_IMM, r1, 1)
                   s4 == add(s3, IR_JMP, y, -1)
                   s5 == label(s4, x)
               IN after_rhs(r1, gen_expr(node.rhs, s5))
         IN after_lhs(gen_expr(node.lhs, [s EXCEPT !.nlabel = @ + 2]))
    [] node.op = ND_LVAR ->
         LET after_lval(s1) ==
               IF s1.err # "" THEN s1
               ELSE IF node.ty = nil_type THEN panic(s1)
               ELSE IF node.ty.ty = PTR
                 THEN [add(s1, IR_LOAD64, s1.r, s1.r) EXCEPT !.r = s1.r]
                 ELSE [add(s1, IR_LOAD32, s1.r, s1.r) EXCEPT !.r = s1.r]
         IN after_lval(gen_lval(node, s))
    [] node.op = ND_CALL ->
         LET after_args(s1) ==
               IF s1.err # "" THEN s1 ELSE
               LET r == s1.nreg
                   ir == [new_ir(IR_CALL, r, -1)
                            EXCEPT !.nargs = Len(node.args), !.args = s1.args]
                   s2 == [s1 EXCEPT !.nreg = @ + 1]
                   s3 == [s2 EXCEPT !.code = Append(@, ir)]
                   s4 == kill_args(s3, ir.args, 0, ir.nargs)
               IN [s4 EXCEPT !.r = r]
         IN after_args(gen_args(node.args, 0, s, NoArgs))
    [] node.op = ND_ADDR -> gen_lval(node.expr, s)
    [] node.op = ND_DEREF ->
         LET after_expr(s1) ==
               IF s1.err # "" THEN s1
               ELSE [add(s1, IR_LOAD64, s1.r, s1.r) EXCEPT !.r = s1.r]
         IN after_expr(gen_expr(node.expr, s))
    [] node.op = CH_ASSIGN ->
         LET after_lval(rhs, s2) ==
               IF s2.err # "" THEN s2
               ELSE IF node.lhs.ty = nil_type THEN panic(s2) ELSE
               LET lhs == s2.r
                   s3 == IF node.lhs.ty.ty = PTR
                           THEN add(s2, IR_STORE64, lhs, rhs)
                           ELSE add(s2, IR_STORE32, lhs, rhs)
                   s4 == gen_kill(s3, rhs)
               IN [s4 EXCEPT !.r = lhs]
             after_rhs(s1) ==
               IF s1.err # "" THEN s1
               ELSE after_lval(s1.r, gen_lval(node.lhs, s1))
         IN after_rhs(gen_expr(node.rhs, s))
    [] node.op \in {CH_PLUS, CH_MINUS} ->
         LET insn == IF node.op = CH_PLUS THEN IR_ADD ELSE IR_SUB
             after_lhs(rhs, s6) ==
               IF s6.err # "" THEN s6 ELSE
               LET lhs == s6.r
                   s7 == add(s6, insn, lhs, rhs)
                   s8 == gen_kill(s7, rhs)
               IN [s8 EXCEPT !.r = lhs]
             after_rhs(s1) ==
               IF s1.err # "" THEN s1 ELSE
               LET rhs == s1.r
                   r == s1.nreg
                   s2 == [s1 EXCEPT !.nreg = @ + 1]
                   s3 == add(s2, IR_IMM, r, size_of(node.lhs.ty.ptr_to))
                   s4 == add(s3, IR_MUL, rhs, r)
                   s5 == gen_kill(s4, r)
               IN after_lhs(rhs, gen_expr(node.lhs, s5))
         IN IF node.lhs.ty = nil_type THEN panic(s)
            ELSE IF node.lhs.ty.ty # PTR
              THEN gen_binop(insn, node.lhs, node.rhs, s)
              ELSE after_rhs(gen_expr(node.rhs, s))
    [] node.op = CH_STAR -> gen_binop(IR_MUL, node.lhs, node.rhs, s)
    [] node.op = CH_SLASH -> gen_binop(IR_DIV, node.lhs, node.rhs, s)
    [] node.op = CH_LT -> gen_binop(IR_LT, node.lhs, node.rhs, s)
    [] OTHER -> [s EXCEPT !.r = 0]

\* the loop of ND_COMP_STMT over node.stmts
gen_stmts(stmts, i, s) ==
  LET after_stmt(s1) ==
        IF s1.err # "" THEN s1 ELSE gen_stmts(stmts, i + 1, s1)
  IN IF i >= Len(stmts) THEN s ELSE after_stmt(gen_stmt(stmts[i + 1], s))

\* the lines of ND_IF after the `if node.els != nil` block: the code runs
\* them for every ND_IF, with or without else (one label)
gen_if_tail(node, s) ==
  LET x == s.nlabel
      after_then(s4) == IF s4.err # "" THEN s4 ELSE label(s4, x)
      after_cond(s1) ==
        IF s1.err # "" THEN s1 ELSE
        LET r == s1.r
            s2 == add(s1, IR_UNLESS, r, x)
            s3 == gen_kill(s2, r)
        IN after_then(gen_stmt(node.then, s3))
  IN after_cond(gen_expr(node.cond, [s EXCEPT !.nlabel = @ + 1]))

gen_stmt(node, s) ==
  CASE node.op = ND_VARDEF ->
         LET after_init(s1) ==
               IF s1.err # "" THEN s1 ELSE
               LET rhs == s1.r
                   lhs == s1.nreg
                   s2 == [s1 EXCEPT !.nreg = @ + 1]
                   s3 == add(s2, IR_MOV, lhs, 0)
                   s4 == add(s3, IR_SUB_IMM, lhs, node.offset)
                   s5 == IF node.ty.ty = PTR
                           THEN add(s4, IR_STORE64, lhs, rhs)
                           ELSE add(s4, IR_STORE32, lhs, rhs)
                   s6 == gen_kill(s5, lhs)
               IN gen_kill(s6, rhs)
         IN IF node.init = nil THEN s
            ELSE after_init(gen_expr(node.init, s))
    [] node.op = ND_IF ->
         LET x == s.nlabel
             y == s.nlabel + 1
             after_els(s7) ==
               IF s7.err # "" THEN s7 ELSE gen_if_tail(node, label(s7, y))
             after_then(s4) ==
               IF s4.err # "" THEN s4 ELSE
               LET s5 == add(s4, IR_JMP, y, -1)
                   s6 == label(s5, x)
               IN after_els(gen_stmt(node.els, s6))
             after_cond(s1) ==
               IF s1.err # "" THEN s1 ELSE
               LET r == s1.r
                   s2 == add(s1, IR_UNLESS, r, x)
                   s3 == gen_kill(s2, r)
               IN after_then(gen_stmt(node.then, s3))
         IN IF node.els = nil THEN gen_if_tail(node, s)
            ELSE after_cond(gen_expr(node.cond, [s EXCEPT !.nlabel = @ + 2]))
    [] node.op = ND_FOR ->
         LET x == s.nlabel
             y == s.nlabel + 1
             after_inc(s7) ==
               IF s7.err # "" THEN s7 ELSE
               LET s8 == gen_kill(s7, s7.r)
                   s9 == add(s8, IR_JMP, x, -1)
               IN label(s9, y)
             after_body(s6) ==
               IF s6.err # "" THEN s6 ELSE after_inc(gen_expr(node.inc, s6))
             after_cond(s3) ==
               IF s3.err # "" THEN s3 ELSE
               LET r == s3.r
                   s4 == add(s3, IR_UNLESS, r, y)
                   s5 == gen_kill(s4, r)
               IN after_body(gen_stmt(node.body, s5))
             after_init(s1) ==
               IF s1.err # "" THEN s1
               ELSE after_cond(gen_expr(node.cond, add(s1, IR_LABEL, x, -1)))
         IN after_init(gen_stmt(node.init, [s EXCEPT !.nlabel = @ + 2]))
    [] node.op = ND_RETURN ->
         LET after_expr(s1) ==
               IF s1.err # "" THEN s1
               ELSE gen_kill(add(s1, IR_RETURN, s1.r, -1), s1.r)
         IN after_expr(gen_expr(node.expr, s))
    [] node.op = ND_EXPR_STMT ->
         LET after_expr(s1) ==
               IF s1.err # "" THEN s1 ELSE gen_kill(s1, s1.r)
         IN after_expr(gen_expr(node.expr, s))
    [] node.op = ND_COMP_STMT -> gen_stmts(node.stmts, 0, s)
    [] OTHER -> error(s)

\* gen_ir's loop body as it would be if nlabel were reset with code and nreg
gen_func_resets_nlabel(node, nl) ==
  LET s0 == [code |-> <<>>, nreg |-> 1, nlabel |-> 0, err |-> "", r |-> 0,
             args |-> NoArgs]
      home[i \in 0..Len(node.args)] ==
        IF i = 0 THEN s0
        ELSE LET arg == node.args[i]
                 op == IF arg.ty.ty = PTR THEN IR_STORE64_ARG
                       ELSE IR_STORE32_ARG
             IN add(home[i - 1], op, arg.offset, i - 1)
  IN gen_stmt(node.body, home[Len(node.args)])

\* the body of gen_ir's loop for one ND_FUNC node, entered with the global
\* nlabel: code = new_vec(), nreg = 1, the parameters are homed, the body
\* is lowered
gen_func(node, nl) ==
  LET s0 == [code |-> <<>>, nreg |-> 1, nlabel |-> nl, err |-> "", r |-> 0,
             args |-> NoArgs]
      home[i \in 0..Len(node.args)] ==
        IF i = 0 THEN s0
        ELSE LET arg == node.args[i]
                 op == IF arg.ty.ty = PTR THEN IR_STORE64_ARG
                       ELSE IR_STORE32_ARG
             IN add(home[i - 1], op, arg.offset, i - 1)
  IN gen_stmt(node.body, home[Len(node.args)])

(***************************************************************************)
(* Register allocation: src/regalloc.go.  a is the record of the globals   *)
(* reg_map and used; a.r is the value alloc returns, a.err the way the     *)
(* process died ("exhausted": error("register exhausted"); "panic": an     *)
(* index out of range).                                                    *)
(***************************************************************************)
\* the lowest i < len(regs) with used[i] = false, or NumRegs when none
first_free(u) ==
  IF \E i \in 0..(NumRegs - 1) : ~u[i]
    THEN CHOOSE i \in 0..(NumRegs - 1) :
           ~u[i] /\ \A j \in 0..(i - 1) : u[j]
    ELSE NumRegs

\* alloc as it would be if a mapped register came back untranslated
alloc_untranslated(a, ir_reg) ==
  IF a.err # "" THEN a
  ELSE IF ir_reg \notin DOMAIN a.reg_map THEN [a EXCEPT !.err = "panic"]
  ELSE IF a.reg_map[ir_reg] # -1 THEN [a EXCEPT !.r = ir_reg]
  ELSE LET i == first_free(a.used)
       IN IF i < NumRegs
            THEN [a EXCEPT !.used[i] = TRUE, !.reg_map[ir_reg] = i, !.r = i]
            ELSE [a EXCEPT !.err = "exhausted"]

alloc(a, ir_reg) ==
  IF a.err # "" THEN a
  ELSE IF ir_reg \notin DOMAIN a.reg_map THEN [a EXCEPT !.err = "panic"]
  ELSE IF a.reg_map[ir_reg] # -1 THEN [a EXCEPT !.r = a.reg_map[ir_reg]]
  ELSE LET i == first_free(a.used)
       IN IF i < NumRegs
            THEN [a EXCEPT !.used[i] = TRUE, !.reg_map[ir_reg] = i, !.r = i]
            ELSE [a EXCEPT !.err = "exhausted"]

\* kill of the allocator (regalloc.go): used[r] = false
kill(a, r) ==
  IF a.err # "" THEN a
  ELSE IF r \notin 0..(NumRegs - 1) THEN [a EXCEPT !.err = "panic"]
  ELSE [a EXCEPT !.used[r] = FALSE]

\* reg_map = make([]int, irv.len), every entry -1
new_reg_map(len) == [v \in 0..(len - 1) |-> -1]

\* alloc_regs' loop body as it would be if the KILL were left in place
alloc_regs_body_keeps_kill(ir, rm, u) ==
  LET a0 == [reg_map |-> rm, used |-> u, r |-> 0, err |-> "", ir |-> ir]
      ty == get_irinfo(ir)
      a1 == IF ty \in {IR_TY_REG, IR_TY_REG_IMM, IR_TY_REG_LABEL}
              THEN LET l == alloc(a0, ir.lhs)
                   IN [l EXCEPT !.ir.lhs = l.r]
            ELSE IF ty = IR_TY_REG_REG
              THEN LET l == alloc(a0, ir.lhs)
                       r == alloc(l, ir.rhs)
                   IN [r EXCEPT !.ir.lhs = l.r, !.ir.rhs = r.r]
            ELSE a0
  IN IF a1.err # "" THEN a1
     ELSE IF ir.op = IR_KILL
       THEN IF a1.ir.lhs \notin DOMAIN a1.reg_map
              THEN [a1 EXCEPT !.err = "panic"]
              ELSE LET k == kill(a1, a1.reg_map[a1.ir.lhs])
                   IN k
       ELSE a1

\* the body of alloc_regs' loop for the instruction ir: the globals after
\* it in a.reg_map and a.used, the rewritten instruction in a.ir
alloc_regs_body(ir, rm, u) ==
  LET a0 == [reg_map |-> rm, used |-> u, r |-> 0, err |-> "", ir |-> ir]
      ty == get_irinfo(ir)
      a1 == IF ty \in {IR_TY_REG, IR_TY_REG_IMM, IR_TY_REG_LABEL}
              THEN LET l == alloc(a0, ir.lhs)
                   IN [l EXCEPT !.ir.lhs = l.r]
            ELSE IF ty = IR_TY_REG_REG
              THEN LET l == alloc(a0, ir.lhs)
                       r == alloc(l, ir.rhs)
                   IN [r EXCEPT !.ir.lhs = l.r, !.ir.rhs = r.r]
            ELSE a0
  IN IF a1.err # "" THEN a1
     ELSE IF ir.op = IR_KILL
       THEN IF a1.ir.lhs \notin DOMAIN a1.reg_map
              THEN [a1 EXCEPT !.err = "panic"]
              ELSE LET k == kill(a1, a1.reg_map[a1.ir.lhs])
                   IN IF k.err # "" THEN k ELSE [k EXCEPT !.ir.op = IR_NOP]
       ELSE a1

(***************************************************************************)
(* The programs the model compiles                                         *)
(***************************************************************************)
IntTy == [ty |-> INT, size |-> 4, align |-> 4]
PtrTy == [ty |-> PTR, size |-> 8, align |-> 8, ptr_to |-> IntTy]

Num(v) == [op |-> ND_NUM, ty |-> IntTy, val |-> v]
Lvar(ty, off) == [op |-> ND_LVAR, ty |-> ty, offset |-> off]
Binop(op, l, r) == [op |-> op, ty |-> nil_type, lhs |-> l, rhs |-> r]
Unary(op, e) == [op |-> op, ty |-> nil_type, expr |-> e]
Call(args) == [op |-> ND_CALL, ty |-> nil_type, args |-> args]
Stmt(op, e) == [op |-> op, expr |-> e]
If(c, t, e) == [op |-> ND_IF, cond |-> c, then |-> t, els |-> e]
For(i, c, n, b) == [op |-> ND_FOR, init |-> i, cond |-> c, inc |-> n, body |-> b]
Vardef(ty, off, init) == [op |-> ND_VARDEF, ty |-> ty, offset |-> off, init |-> init]
Comp(stmts) == [op |-> ND_COMP_STMT, stmts |-> stmts]
Func(args, body) == [op |-> ND_FUNC, args |-> args, body |-> body]
null_stmt == [op |-> ND_NULL]

\* the semantic pass attaches the type ty to the node
sema_ty(node, ty) == [node EXCEPT !.ty = ty]

One == Num(1)
VarA == Lvar(IntTy, 4)
VarP == Lvar(PtrTy, 8)
\* a == 1: an opcode gen_expr has no case for
EqA1 == sema_ty(Binop(ND_EQ, VarA, One), IntTy)
\* *p, typed and as new_expr leaves it
DerefP == sema_ty(Unary(ND_DEREF, VarP), IntTy)
DerefPUntyped == Unary(ND_DEREF, VarP)
CallG == Call(<<>>)

Leaves == {One, VarA, VarP, EqA1}

\* expressions with one operator over the leaves
Exprs ==
  Leaves
  \cup {Binop(op, a, b) :
          op \in {CH_PLUS, CH_MINUS, CH_STAR, CH_SLASH, CH_LT,
                  ND_LOGAND, ND_LOGOR},
          a \in Leaves, b \in Leaves}
  \cup {Binop(CH_ASSIGN, l, a) :
          l \in {VarA, VarP, DerefP, DerefPUntyped, One},
          a \in Leaves}
  \cup {DerefP, sema_ty(Unary(ND_ADDR, VarA), PtrTy), Unary(ND_ADDR, One)}
  \cup {Binop(CH_PLUS, l, One) :
          l \in {Binop(CH_PLUS, One, One),
                 sema_ty(Binop(CH_PLUS, One, One), IntTy),
                 CallG, sema_ty(CallG, IntTy)}}
  \cup {Call(args) : args \in {<<>>, <<One>>, <<VarA, One>>, <<CallG, VarA>>,
                               <<One, One, One, One, One, One>>,
                               <<One, One, One, One, One, One, One>>}}

\* a1 + (a2 + (... + an)): the first two operands vary, the last one is a
\* number, a variable or a call of six calls
RECURSIVE Ones(_, _)
Ones(n, last) == IF n = 0 THEN last ELSE Binop(CH_PLUS, One, Ones(n - 1, last))

Chains ==
  {Binop(CH_PLUS, a, Binop(CH_PLUS, b, Ones(n, last))) :
     a \in {One, VarA}, b \in {One, VarA}, n \in 0..(MaxNest - 3),
     last \in {One, VarA, Call(<<CallG, CallG, CallG, CallG, CallG, CallG>>)}}

Conds == {One, VarA, Binop(CH_LT, VarA, One), Binop(ND_LOGAND, VarA, One),
          Binop(ND_LOGOR, VarA, One), EqA1}

SimpleStmts ==
  {Stmt(ND_RETURN, One), Stmt(ND_RETURN, VarA),
   Stmt(ND_EXPR_STMT, Binop(CH_ASSIGN, VarA, One))}

Stmts ==
  {Stmt(op, e) : op \in {ND_RETURN, ND_EXPR_STMT}, e \in Exprs \cup Chains}
  \cup {Vardef(ty, 4, e) : ty \in {IntTy, PtrTy}, e \in {nil, One, VarA, CallG}}
  \cup {If(c, t, e) : c \in Conds, t \in SimpleStmts,
                      e \in {nil} \cup SimpleStmts}
  \cup {If(One, If(VarA, Stmt(ND_RETURN, One), Stmt(ND_RETURN, VarA)), e) :
          e \in {nil, Stmt(ND_RETURN, One)}}
  \cup {For(i, c, n, b) :
          i \in {Stmt(ND_EXPR_STMT, Binop(CH_ASSIGN, VarA, One)),
                 Vardef(IntTy, 4, One), null_stmt},
          c \in {VarA, Binop(CH_LT, VarA, One)},
          n \in {Stmt(ND_EXPR_STMT, Binop(CH_ASSIGN, VarA, One)),
                 Binop(CH_ASSIGN, VarA, One), null_stmt},
          b \in SimpleStmts}
  \cup {[op |-> ND_DO_WHILE, body |-> Stmt(ND_RETURN, One), cond |-> One],
        null_stmt}

Bodies ==
  {Comp(<<s>>) : s \in Stmts}
  \cup {Comp(<<s, t>>) : s \in SimpleStmts, t \in SimpleStmts}
  \cup {Comp(<<>>)}

ParamLists == {<<Vardef(IntTy, 4, nil)>>,
               <<Vardef(PtrTy, 8, nil), Vardef(IntTy, 12, nil)>>}

\* the functions a program ends with
Funcs ==
  {Func(<<>>, b) : b \in Bodies}
  \cup {Func(p, Comp(<<s>>)) : p \in ParamLists, s \in SimpleStmts}

\* the functions that come before the last one
EarlierFuncs ==
  {Func(<<>>, Comp(<<s>>)) :
     s \in {Stmt(ND_RETURN, VarA),
            Stmt(ND_EXPR_STMT, Binop(CH_ASSIGN, VarA, VarA)),
            If(VarA, Stmt(ND_EXPR_STMT, Binop(CH_ASSIGN, VarA, One)), nil),
            Stmt(ND_RETURN, One)}}

RECURSIVE SeqsUpTo(_, _)
SeqsUpTo(S, n) ==
  IF n = 0 THEN {<<>>}
  ELSE LET T == SeqsUpTo(S, n - 1)
       IN T \cup {Append(q, x) : q \in T, x \in S}

Programs ==
  {<<>>}
  \cup {Append(q, f) : q \in SeqsUpTo(EarlierFuncs, MaxFuncs - 1), f \in Funcs}

(***************************************************************************)
(* The compiler as a state machine                                         *)
(***************************************************************************)
VARIABLES
  nodes,    \* the parsed program: a sequence of ND_FUNC nodes
  pc,       \* where main is: "gen_ir", "alloc_regs", "alloc_loop", "done",
            \* or how the process died: "error", "gen_panic", "exhausted",
            \* "panic"
  fns,      \* the Function records gen_ir has pushed (their ir as lowered)
  nlabel,   \* the global label counter
  irv,      \* the vector alloc_regs is called on and rewrites in place
  i,        \* alloc_regs' loop index
  reg_map,  \* the global reg_map
  used      \* the global used

vars == <<nodes, pc, fns, nlabel, irv, i, reg_map, used>>

\* main, after parse: the globals as the program starts with them
Init ==
  /\ nodes \in Programs
  /\ pc = "gen_ir"
  /\ fns = <<>>
  /\ nlabel = 0
  /\ irv = <<>>
  /\ i = 0
  /\ reg_map = <<>>
  /\ used = [p \in 0..(NumRegs - 1) |-> FALSE]

\* one iteration of gen_ir's loop over the functions
GenIrFunc ==
  /\ pc = "gen_ir"
  /\ Len(fns) < Len(nodes)
  /\ LET s == gen_func(nodes[Len(fns) + 1], nlabel)
     IN IF s.err = ""
          THEN /\ fns' = Append(fns, [ir |-> s.code])
               /\ nlabel' = s.nlabel
               /\ pc' = pc
          ELSE /\ pc' = IF s.err = "error" THEN "error" ELSE "gen_panic"
               /\ UNCHANGED <<fns, nlabel>>
  /\ UNCHANGED <<nodes, irv, i, reg_map, used>>

\* gen_ir returns the vector of Function records: irv := gen_ir(node), and
\* main goes on to alloc_regs(irv)
GenIrReturn ==
  /\ pc = "gen_ir"
  /\ Len(fns) = Len(nodes)
  /\ irv' = fns
  /\ pc' = "alloc_regs"
  /\ UNCHANGED <<nodes, fns, nlabel, i, reg_map, used>>

\* alloc_regs is entered on irv: reg_map is made anew with one entry per
\* element of irv, used is left as it is
AllocRegsEnter ==
  /\ pc = "alloc_regs"
  /\ reg_map' = new_reg_map(Len(irv))
  /\ i' = 0
  /\ pc' = "alloc_loop"
  /\ UNCHANGED <<nodes, fns, nlabel, irv, used>>

\* irv.data[i].(*IR) succeeds: the element is an IR, not a Function record
IsIR(x) == "op" \in DOMAIN x

\* one iteration of alloc_regs' loop; the type assertion on an element
\* that is not an IR panics
AllocRegsStep ==
  /\ pc = "alloc_loop"
  /\ i < Len(irv)
  /\ IF ~IsIR(irv[i + 1])
       THEN /\ pc' = "panic"
            /\ UNCHANGED <<irv, reg_map, used, i>>
       ELSE LET a == alloc_regs_body(irv[i + 1], reg_map, used)
            IN IF a.err = ""
                 THEN /\ irv' = [irv EXCEPT ![i + 1] = a.ir]
                      /\ reg_map' = a.reg_map
                      /\ used' = a.used
                      /\ i' = i + 1
                      /\ pc' = pc
                 ELSE /\ pc' = a.err
                      /\ UNCHANGED <<irv, reg_map, used, i>>
  /\ UNCHANGED <<nodes, fns, nlabel>>

\* alloc_regs returns to main
AllocRegsReturn ==
  /\ pc = "alloc_loop"
  /\ i = Len(irv)
  /\ pc' = "done"
  /\ UNCHANGED <<nodes, fns, nlabel, irv, i, reg_map, used>>

Next ==
  \/ GenIrFunc
  \/ GenIrReturn
  \/ AllocRegsEnter
  \/ AllocRegsStep
  \/ AllocRegsReturn

Spec == Init /\ [][Next]_vars

\* alloc_regs called, with the globals as the program starts with them, on
\* the IR of one function as gen_ir lowers it (kept in fns for reference)
InitAlloc ==
  /\ nodes \in {<<f>> : f \in Funcs}
  /\ LET s == gen_func(nodes[1], 0)
     IN /\ s.err = ""
        /\ fns = <<[ir |-> s.code]>>
        /\ nlabel = s.nlabel
        /\ irv = s.code
  /\ pc = "alloc_regs"
  /\ i = 0
  /\ reg_map = <<>>
  /\ used = [p \in 0..(NumRegs - 1) |-> FALSE]

NextAlloc ==
  \/ AllocRegsEnter
  \/ AllocRegsStep
  \/ AllocRegsReturn

SpecAlloc == InitAlloc /\ [][NextAlloc]_vars

(***************************************************************************)
(* Vocabulary of the claims                                                *)
(***************************************************************************)
PhysRegs == 0..(NumRegs - 1)

\* alloc_regs has run to the end of the IR in irv
Allocated ==
  \/ pc = "alloc_loop" /\ i = Len(irv)
  \/ pc = "done"

\* the IR alloc_regs was called on, as gen_ir left it
Orig == fns[1].ir

\* the register operands of an instruction that its shape names
ShapeRegs(ir) ==
  LET ty == get_irinfo(ir)
  IN IF ty \in {IR_TY_REG, IR_TY_REG_IMM, IR_TY_REG_LABEL} THEN {ir.lhs}
     ELSE IF ty = IR_TY_REG_REG THEN {ir.lhs, ir.rhs}
     ELSE {}

\* C1: once alloc_regs has run to the end of a function's IR, every
\* register operand of the shapes REG, REG_IMM, REG_LABEL (lhs) and REG_REG
\* (lhs and rhs) is a physical register index in 0..7.
C1_OperandsPhysical ==
  Allocated => \A k \in 1..Len(irv) : ShapeRegs(irv[k]) \subseteq PhysRegs

\* a finished allocation that rewrote a virtual register numbered 8 or more,
\* in a two-register and in a one-register instruction
C1_Witness ==
  /\ Allocated
  /\ \E k \in 1..Len(irv) :
       /\ get_irinfo(Orig[k]) = IR_TY_REG_REG
       /\ Orig[k].rhs >= NumRegs
       /\ irv[k].rhs \in PhysRegs
  /\ \E k \in 1..Len(irv) :
       /\ get_irinfo(Orig[k]) \in {IR_TY_REG, IR_TY_REG_IMM, IR_TY_REG_LABEL}
       /\ Orig[k].lhs >= NumRegs
       /\ irv[k].lhs \in PhysRegs

\* C5: alloc_regs keeps the number and the order of the instructions: a KILL
\* becomes a NOP at the same position, every other instruction keeps its
\* opcode, and no KILL remains.
C5_KillBecomesNop ==
  Allocated =>
    /\ Len(irv) = Len(Orig)
    /\ \A k \in 1..Len(irv) :
         /\ Orig[k].op = IR_KILL => irv[k].op = IR_NOP
         /\ Orig[k].op # IR_KILL => irv[k].op = Orig[k].op
         /\ irv[k].op # IR_KILL

\* a finished allocation of an IR that had KILLs between other instructions
C5_Witness ==
  /\ Allocated
  /\ \E k \in 1..Len(irv), j \in 1..Len(irv) :
       /\ k < j
       /\ Orig[k].op = IR_KILL /\ irv[k].op = IR_NOP
       /\ Orig[j].op \notin {IR_KILL, IR_NOP} /\ irv[j].op = Orig[j].op

\* the labels a function's IR defines
LabelsOf(ir) == {ir[k].lhs : k \in {j \in 1..Len(ir) : ir[j].op = IR_LABEL}}

\* C6: in the IR gen_ir produces, every UNLESS r,L and every JMP L has a
\* LABEL L in the IR of the same function.
C6_TargetsDefined ==
  \A f \in 1..Len(fns) :
    \A k \in 1..Len(fns[f].ir) :
      LET ir == fns[f].ir[k]
      IN /\ ir.op = IR_UNLESS => ir.rhs \in LabelsOf(fns[f].ir)
         /\ ir.op = IR_JMP => ir.lhs \in LabelsOf(fns[f].ir)

\* a second function whose IR has an UNLESS and a JMP whose targets differ
C6_Witness ==
  /\ Len(fns) >= 2
  /\ \E k \in 1..Len(fns[2].ir), j \in 1..Len(fns[2].ir) :
       /\ fns[2].ir[k].op = IR_UNLESS
       /\ fns[2].ir[j].op = IR_JMP
       /\ fns[2].ir[k].rhs # fns[2].ir[j].lhs

\* the number of LABEL instructions of an IR
NumLabels(ir) == Cardinality({k \in 1..Len(ir) : ir[k].op = IR_LABEL})

RECURSIVE TotalLabels(_, _)
TotalLabels(fs, n) ==
  IF n = 0 THEN 0 ELSE TotalLabels(fs, n - 1) + NumLabels(fs[n].ir)

\* C7: after gen_ir has lowered a whole program, starting from nlabel = 0,
\* nlabel equals the number of LABEL instructions in the IR of all functions.
C7_NlabelCountsLabels ==
  (Len(fns) = Len(nodes)) => nlabel = TotalLabels(fns, Len(fns))

\* a lowered program of two functions that both have labels
C7_Witness ==
  /\ Len(nodes) = 2
  /\ Len(fns) = 2
  /\ NumLabels(fns[1].ir) > 0
  /\ NumLabels(fns[2].ir) > 1
  /\ nlabel = NumLabels(fns[1].ir) + NumLabels(fns[2].ir)

\* every register an instruction refers to: the operands its shape names and
\* the destination and arguments of a CALL; the 0 of `MOV r,0` is the
\* frame-base sentinel, not a register
Refs(ir) ==
  IF ir.op = IR_CALL
    THEN {ir.lhs} \cup {ir.args[a] : a \in 0..(ir.nargs - 1)}
  ELSE IF ir.op = IR_MOV /\ ir.rhs = 0 THEN {ir.lhs}
  ELSE ShapeRegs(ir)

\* the virtual registers numbered 1 and up that are live after the first n
\* instructions: referred to, and not yet the operand of a KILL
Live(ir, n) ==
  {v \in UNION {Refs(ir[k]) : k \in 1..n} :
     v >= 1 /\ \A k \in 1..n : ~(ir[k].op = IR_KILL /\ ir[k].lhs = v)}

\* the largest number of registers live at one point of an IR
MaxLive(ir) ==
  LET counts == {Cardinality(Live(ir, n)) : n \in 0..Len(ir)}
  IN CHOOSE c \in counts : \A d \in counts : d <= c

\* C2: a step of alloc_regs on `KILL v` clears the occupancy slot of the
\* physical register v is mapped to and of no other (and does not die).
C2_KillFreesMappedRegister ==
  [][(pc = "alloc_loop" /\ i < Len(irv) /\ irv[i + 1].op = IR_KILL
        /\ pc' # "exhausted")
       => /\ pc' = "alloc_loop"
          /\ used' = [used EXCEPT ![reg_map'[irv[i + 1].lhs]] = FALSE]]_vars

\* C3: alloc_regs does not finish the allocation of an IR in which more
\* than eight virtual registers are live at the same point.
C3_ExhaustedAboveEight ==
  Allocated => MaxLive(Orig) <= NumRegs

\* C4: after allocation the destination and the arguments of every CALL are
\* the physical indices that reg_map assigns to their virtual registers.
C4_CallOperandsRewritten ==
  Allocated =>
    \A k \in 1..Len(irv) :
      Orig[k].op = IR_CALL =>
        /\ irv[k].lhs \in PhysRegs
        /\ irv[k].lhs = reg_map[Orig[k].lhs]
        /\ \A a \in 0..(Orig[k].nargs - 1) :
             /\ irv[k].args[a] \in PhysRegs
             /\ irv[k].args[a] = reg_map[Orig[k].args[a]]

\* C8: in the IR of every lowered function every register that is referred
\* to has a KILL, and no instruction other than a KILL refers to it after a
\* KILL of it.
C8_KilledAfterLastUse ==
  \A f \in 1..Len(fns) :
    LET ir == fns[f].ir
    IN \A v \in UNION {Refs(ir[k]) : k \in 1..Len(ir)} :
         /\ \E k \in 1..Len(ir) : ir[k].op = IR_KILL /\ ir[k].lhs = v
         /\ \A k \in 1..Len(ir), j \in 1..Len(ir) :
              (ir[k].op = IR_KILL /\ ir[k].lhs = v
                 /\ ir[j].op # IR_KILL /\ v \in Refs(ir[j])) => j < k

\* C9: alloc_regs does not raise "register exhausted" on a function whose
\* IR never has more than eight registers numbered 1 and up live at once.
C9_EightRegistersSuffice ==
  pc = "exhausted" => MaxLive(Orig) > NumRegs

\* what the claim says an ND_IF with an else branch lowers to, entered with
\* nreg = 1 and nlabel = 0
IfElseSequence(node) ==
  LET s0 == [code |-> <<>>, nreg |-> 1, nlabel |-> 2, err |-> "", r |-> 0,
             args |-> NoArgs]
      from(s) == [s EXCEPT !.code = <<>>]
      seq(c, th, el) ==
        c.code
          \o <<new_ir(IR_UNLESS, c.r, 0), new_ir(IR_KILL, c.r, -1)>>
          \o th.code
          \o <<new_ir(IR_JMP, 1, -1), new_ir(IR_LABEL, 0, -1)>>
          \o el.code
          \o <<new_ir(IR_LABEL, 1, -1)>>
      after_then(c, th) == seq(c, th, gen_stmt(node.els, from(th)))
      after_cond(c) == after_then(c, gen_stmt(node.then, from(c)))
  IN after_cond(gen_expr(node.cond, s0))

\* C10: a first function whose body is one ND_IF with an else branch lowers
\* to cond, UNLESS r,x, KILL r, then, JMP y, LABEL x, else, LABEL y and
\* nothing more.
C10_IfElseExact ==
  (/\ Len(fns) >= 1
   /\ Len(nodes[1].args) = 0
   /\ Len(nodes[1].body.stmts) = 1
   /\ nodes[1].body.stmts[1].op = ND_IF
   /\ nodes[1].body.stmts[1].els # nil)
    => fns[1].ir = IfElseSequence(nodes[1].body.stmts[1])

\* an ND_FOR node as stmt() builds it: a `for` (init a declaration or an
\* expression statement, inc an ND_EXPR_STMT node) or a `while` (init and
\* inc are the null statement)
IsParserFor(node) ==
  /\ node.op = ND_FOR
  /\ \/ node.init.op \in {ND_VARDEF, ND_EXPR_STMT} /\ node.inc.op = ND_EXPR_STMT
     \/ node.init.op = ND_NULL /\ node.inc.op = ND_NULL

\* what the claim says an ND_FOR lowers to, entered with nreg = 1 and
\* nlabel = 0 (x = 0, y = 1)
ForSequence(node) ==
  LET s0 == [code |-> <<>>, nreg |-> 1, nlabel |-> 2, err |-> "", r |-> 0,
             args |-> NoArgs]
      from(s) == [s EXCEPT !.code = <<>>]
      inc_code(n) == n.code \o <<new_ir(IR_KILL, n.r, -1)>>
      seq(in, c, b, n) ==
        in.code
          \o <<new_ir(IR_LABEL, 0, -1)>>
          \o c.code
          \o <<new_ir(IR_UNLESS, c.r, 1), new_ir(IR_KILL, c.r, -1)>>
          \o b.code
          \o (IF node.inc.op = ND_NULL THEN <<>> ELSE inc_code(n))
          \o <<new_ir(IR_JMP, 0, -1), new_ir(IR_LABEL, 1, -1)>>
      after_body(in, c, b) ==
        seq(in, c, b, IF node.inc.op = ND_NULL THEN b
                      ELSE gen_expr(node.inc.expr, from(b)))
      after_cond(in, c) == after_body(in, c, gen_stmt(node.body, from(c)))
      after_init(in) == after_cond(in, gen_expr(node.cond, from(in)))
  IN after_init(IF node.init.op = ND_NULL THEN s0 ELSE gen_stmt(node.init, s0))

\* the first function is `int main() { <one parser-built for or while> }`
\* and gen_ir is through with it
FirstIsFor ==
  /\ Len(nodes) >= 1
  /\ Len(nodes[1].args) = 0
  /\ nodes[1].body.op = ND_COMP_STMT
  /\ Len(nodes[1].body.stmts) = 1
  /\ IsParserFor(nodes[1].body.stmts[1])
  /\ (Len(fns) >= 1 \/ pc \in {"error", "gen_panic"})

\* C11: lowering a parser-built ND_FOR does not fail and emits init,
\* LABEL x, cond, UNLESS r,y, KILL r, body, the code of the inc expression
\* and a KILL of its result, JMP x, LABEL y; a null init or inc emits
\* nothing.
C11_ForExact ==
  FirstIsFor =>
    /\ Len(fns) >= 1
    /\ fns[1].ir = ForSequence(nodes[1].body.stmts[1])

\* lowering the node, carried through although no rule applies, comes to a
\* node without a lowering rule: Stmt in gen_stmt, Expr in gen_expr, Lval
\* in gen_lval
RECURSIVE StmtUnruled(_), ExprUnruled(_), LvalUnruled(_)
LvalUnruled(node) ==
  CASE node.op = ND_DEREF -> ExprUnruled(node.expr)
    [] node.op = ND_LVAR -> FALSE
    [] OTHER -> TRUE

ExprUnruled(node) ==
  CASE node.op \in {ND_NUM, ND_LVAR} -> FALSE
    [] node.op \in {ND_LOGAND, ND_LOGOR, CH_PLUS, CH_MINUS, CH_STAR,
                    CH_SLASH, CH_LT} ->
         ExprUnruled(node.lhs) \/ ExprUnruled(node.rhs)
    [] node.op = ND_CALL ->
         \E k \in 1..Len(node.args) : ExprUnruled(node.args[k])
    [] node.op = ND_ADDR -> LvalUnruled(node.expr)
    [] node.op = ND_DEREF -> ExprUnruled(node.expr)
    [] node.op = CH_ASSIGN -> ExprUnruled(node.rhs) \/ LvalUnruled(node.lhs)
    [] OTHER -> TRUE

StmtUnruled(node) ==
  CASE node.op = ND_VARDEF -> node.init # nil /\ ExprUnruled(node.init)
    [] node.op = ND_IF ->
         \/ ExprUnruled(node.cond)
         \/ StmtUnruled(node.then)
         \/ node.els # nil /\ StmtUnruled(node.els)
    [] node.op = ND_FOR ->
         \/ StmtUnruled(node.init)
         \/ ExprUnruled(node.cond)
         \/ StmtUnruled(node.body)
         \/ ExprUnruled(node.inc)
    [] node.op \in {ND_RETURN, ND_EXPR_STMT} -> ExprUnruled(node.expr)
    [] node.op = ND_COMP_STMT ->
         \E k \in 1..Len(node.stmts) : StmtUnruled(node.stmts[k])
    [] OTHER -> TRUE

\* C12: a function whose lowering comes to a node without a lowering rule
\* (in gen_stmt, gen_expr or gen_lval) gets no Function record: lowering
\* stops with a fatal error there and never returns a register and goes on.
C12_UnruledIsFatal ==
  \A k \in 1..Len(fns) : ~StmtUnruled(nodes[k].body)

\* alloc_regs is in its pass over a function's IR, i instructions done
InPass == pc \in {"alloc_loop", "exhausted", "panic"}

\* the virtual registers that are live at this point of the pass: already
\* allocated, and no KILL of them among the instructions done
LiveNow ==
  {v \in DOMAIN reg_map \ {0} :
     /\ reg_map[v] # -1
     /\ ~\E k \in 1..i : Orig[k].op = IR_KILL /\ Orig[k].lhs = v}

\* C13: at every point of alloc_regs' pass, two distinct live virtual
\* registers have different physical registers, and the physical register
\* of every live virtual register is marked in used.
C13_LiveRegistersDisjoint ==
  InPass =>
    /\ \A v, w \in LiveNow : v # w => reg_map[v] # reg_map[w]
    /\ \A v \in LiveNow : used[reg_map[v]]

====
